---- MODULE Spec2Model ----
(***************************************************************************)
(* The product REST router of server/src/router.ts: every route is a       *)
(* stack of express-validator field chains, the handleInputErrors          *)
(* middleware (where the route lists it) and a product handler.  The state *)
(* is the Product table, the request being served and its response.        *)
(*                                                                         *)
(* Text values are sequences of one-character strings, so that the         *)
(* validator.js predicates (isInt, isNumeric, isEmpty, isBoolean) and the  *)
(* JavaScript coercions are computed on the characters.                    *)
(***************************************************************************)
EXTENDS Integers, Sequences, FiniteSets

\* Number of rows the table's auto-increment sequence hands out in a run.
MaxProducts == 2

VARIABLES products, nextId, pc, req, res, deleted

vars == <<products, nextId, pc, req, res, deleted>>

----------------------------------------------------------------------------
\* JavaScript values carried by a JSON body

JsUndefined == [t |-> "undefined", n |-> 0, s |-> <<>>, b |-> FALSE]
JsNum(k) == [t |-> "num", n |-> k, s |-> <<>>, b |-> FALSE]
JsStr(str) == [t |-> "str", n |-> 0, s |-> str, b |-> FALSE]
JsBool(v) == [t |-> "bool", n |-> 0, s |-> <<>>, b |-> v]

DigitChars == <<"0", "1", "2", "3", "4", "5", "6", "7", "8", "9">>

IsDigit(c) == \E i \in DOMAIN DigitChars : DigitChars[i] = c

DigitVal(c) == (CHOOSE i \in DOMAIN DigitChars : DigitChars[i] = c) - 1

AllDigits(s) == \A i \in DOMAIN s : IsDigit(s[i])

HasSign(s) == Len(s) > 0 /\ s[1] \in {"+", "-"}

Unsigned(s) == IF HasSign(s) THEN Tail(s) ELSE s

RECURSIVE DigitsToNat(_)
DigitsToNat(s) ==
    IF s = <<>> THEN 0
    ELSE 10 * DigitsToNat(SubSeq(s, 1, Len(s) - 1)) + DigitVal(s[Len(s)])

RECURSIVE NatToStr(_)
NatToStr(k) ==
    IF k < 10 THEN <<DigitChars[k + 1]>>
    ELSE NatToStr(k \div 10) \o <<DigitChars[(k % 10) + 1]>>

NumToStr(k) == IF k < 0 THEN <<"-">> \o NatToStr(-k) ELSE NatToStr(k)

\* express-validator's toString: the text a standard validator is run on.
ToText(v) ==
    CASE v.t = "undefined" -> <<>>
      [] v.t = "num" -> NumToStr(v.n)
      [] v.t = "str" -> v.s
      [] v.t = "bool" -> IF v.b THEN <<"t", "r", "u", "e">>
                         ELSE <<"f", "a", "l", "s", "e">>

\* validator.js isInt, default options: /^[-+]?[0-9]+$/
IsInt(s) == Len(Unsigned(s)) > 0 /\ AllDigits(Unsigned(s))

\* validator.js isNumeric, default options: /^[+-]?([0-9]*[.])?[0-9]+$/
IsNumeric(s) ==
    LET u == Unsigned(s)
    IN  \/ Len(u) > 0 /\ AllDigits(u)
        \/ \E i \in DOMAIN u :
              /\ u[i] = "."
              /\ AllDigits(SubSeq(u, 1, i - 1))
              /\ i < Len(u)
              /\ AllDigits(SubSeq(u, i + 1, Len(u)))

\* validator.js isEmpty, default options: the text has length 0
IsEmpty(s) == Len(s) = 0

\* validator.js isBoolean, default (strict) options
IsBoolean(s) ==
    s \in {<<"t", "r", "u", "e">>, <<"f", "a", "l", "s", "e">>, <<"1">>, <<"0">>}

\* The integer a text matching isInt denotes.
ToInt(s) ==
    IF HasSign(s) /\ s[1] = "-" THEN 0 - DigitsToNat(Unsigned(s))
    ELSE DigitsToNat(Unsigned(s))

\* A decimal literal of JavaScript's ToNumber, over signs, digits and ".".
IsDecimalLiteral(s) ==
    LET u == Unsigned(s)
    IN  \/ Len(u) > 0 /\ AllDigits(u)
        \/ \E i \in DOMAIN u :
              /\ u[i] = "."
              /\ AllDigits(SubSeq(u, 1, i - 1))
              /\ AllDigits(SubSeq(u, i + 1, Len(u)))
              /\ Len(u) > 1

\* The custom validator (value) => value > 0, with JavaScript's coercion of
\* the raw value: "" is 0, a text that is no number is NaN, undefined is NaN.
GreaterThanZero(v) ==
    CASE v.t = "num" -> v.n > 0
      [] v.t = "bool" -> v.b
      [] v.t = "undefined" -> FALSE
      [] v.t = "str" -> /\ IsDecimalLiteral(v.s)
                        /\ v.s[1] # "-"
                        /\ \E i \in DOMAIN v.s : IsDigit(v.s[i]) /\ v.s[i] # "0"

----------------------------------------------------------------------------
\* Requests, responses and rows

NoErrors == <<>>

FieldError(field, msg) == <<[field |-> field, msg |-> msg]>>

Row(id, name, price, availability) ==
    [id |-> id, name |-> name, price |-> price, availability |-> availability]

Response(status, errors, data, handler) ==
    [status |-> status, errors |-> errors, data |-> data, handler |-> handler]

NoResponse == Response(0, NoErrors, {}, "none")

EmptyBody == [name |-> JsUndefined, price |-> JsUndefined, availability |-> JsUndefined]

Request(method, id, body) == [method |-> method, id |-> id, body |-> body]

NoRequest == Request("none", <<>>, EmptyBody)

\* What a handler leaves behind: the response and the table.
Outcome(response, rows, next) == [res |-> response, products |-> rows, nextId |-> next]

----------------------------------------------------------------------------
\* The field chains of the routes

\* Row ids present in the table equal to the integer the text denotes.
FindByPk(idText) ==
    IF IsInt(idText) THEN {k \in DOMAIN products : products[k].id = ToInt(idText)}
    ELSE {}

GetId(r) ==
    IF IsInt(r.id) THEN NoErrors ELSE FieldError("id", "ID no valido")

PostName(r) ==
    IF ~IsEmpty(ToText(r.body.name)) THEN NoErrors
    ELSE FieldError("name", "El nombre del producto no puede ir vacio")

\* PostPrice with the custom check written value >= 0.
PostPriceNonNegative(r) ==
    (IF IsNumeric(ToText(r.body.price)) THEN NoErrors
     ELSE FieldError("price", "Valor no valido"))
    \o (IF ~IsEmpty(ToText(r.body.price)) THEN NoErrors
        ELSE FieldError("price", "El precio del producto no puede ir vacio"))
    \o (IF GreaterThanZero(r.body.price) \/ ToText(r.body.price) = <<"0">> THEN NoErrors
        ELSE FieldError("price", "Precio no valido"))

\* PostPrice with the custom check written value > 1.
PostPriceAboveOne(r) ==
    (IF IsNumeric(ToText(r.body.price)) THEN NoErrors
     ELSE FieldError("price", "Valor no valido"))
    \o (IF ~IsEmpty(ToText(r.body.price)) THEN NoErrors
        ELSE FieldError("price", "El precio del producto no puede ir vacio"))
    \o (IF GreaterThanZero(r.body.price) /\ ToText(r.body.price) # <<"1">> THEN NoErrors
        ELSE FieldError("price", "Precio no valido"))

PostPrice(r) ==
    (IF IsNumeric(ToText(r.body.price)) THEN NoErrors
     ELSE FieldError("price", "Valor no valido"))
    \o (IF ~IsEmpty(ToText(r.body.price)) THEN NoErrors
        ELSE FieldError("price", "El precio del producto no puede ir vacio"))
    \o (IF GreaterThanZero(r.body.price) THEN NoErrors
        ELSE FieldError("price", "Precio no valido"))

PutId(r) ==
    IF IsInt(r.id) THEN NoErrors ELSE FieldError("id", "ID no valido")

PutName(r) ==
    IF ~IsEmpty(ToText(r.body.name)) THEN NoErrors
    ELSE FieldError("name", "El nombre del producto no puede ir vacio")

\* PutPrice with the custom check written value >= 0.
PutPriceNonNegative(r) ==
    (IF IsNumeric(ToText(r.body.price)) THEN NoErrors
     ELSE FieldError("price", "Valor no valido"))
    \o (IF ~IsEmpty(ToText(r.body.price)) THEN NoErrors
        ELSE FieldError("price", "El precio del producto no puede ir vacio"))
    \o (IF GreaterThanZero(r.body.price) \/ ToText(r.body.price) = <<"0">> THEN NoErrors
        ELSE FieldError("price", "Precio no valido"))

PutPrice(r) ==
    (IF IsNumeric(ToText(r.body.price)) THEN NoErrors
     ELSE FieldError("price", "Valor no valido"))
    \o (IF ~IsEmpty(ToText(r.body.price)) THEN NoErrors
        ELSE FieldError("price", "El precio del producto no puede ir vacio"))
    \o (IF GreaterThanZero(r.body.price) THEN NoErrors
        ELSE FieldError("price", "Precio no valido"))

PutAvailability(r) ==
    IF IsBoolean(ToText(r.body.availability)) THEN NoErrors
    ELSE FieldError("availability", "Valor para disponibilidad no valido")

PatchId(r) ==
    IF IsInt(r.id) THEN NoErrors ELSE FieldError("id", "ID no valido")

DeleteId(r) ==
    IF IsInt(r.id) THEN NoErrors ELSE FieldError("id", "ID no valido")

ValidatorSteps ==
    {"get.id", "post.name", "post.price", "put.id", "put.name", "put.price",
     "put.availability", "patch.id", "delete.id"}

FieldErrors(step, r) ==
    CASE step = "get.id" -> GetId(r)
      [] step = "post.name" -> PostName(r)
      [] step = "post.price" -> PostPrice(r)
      [] step = "put.id" -> PutId(r)
      [] step = "put.name" -> PutName(r)
      [] step = "put.price" -> PutPrice(r)
      [] step = "put.availability" -> PutAvailability(r)
      [] step = "patch.id" -> PatchId(r)
      [] step = "delete.id" -> DeleteId(r)

----------------------------------------------------------------------------
\* The route stacks, in the order router.ts lists their middleware

GetProductsRoute == <<"getProducts">>

\* GetProductByIdRoute bound to the list handler.
GetProductByIdRouteListHandler == <<"get.id", "handleInputErrors", "getProducts">>

\* GetProductByIdRoute without handleInputErrors.
GetProductByIdRouteUnchecked == <<"get.id", "getProductById">>

GetProductByIdRoute == <<"get.id", "handleInputErrors", "getProductById">>

CreateProductRoute == <<"post.name", "post.price", "handleInputErrors", "createProduct">>

\* UpdateProductRoute without the name chain.
UpdateProductRouteNoName ==
    <<"put.id", "put.price", "put.availability", "handleInputErrors", "updateProduct">>

UpdateProductRoute ==
    <<"put.id", "put.name", "put.price", "put.availability", "handleInputErrors",
      "updateProduct">>

\* UpdateAvailabilityRoute bound to the delete handler.
UpdateAvailabilityRouteDeletes == <<"patch.id", "deleteProduct">>

UpdateAvailabilityRoute == <<"patch.id", "updateAvailability">>

\* DeleteProductRoute bound to the get-by-id handler.
DeleteProductRouteGets == <<"delete.id", "handleInputErrors", "getProductById">>

DeleteProductRoute == <<"delete.id", "handleInputErrors", "deleteProduct">>

----------------------------------------------------------------------------
\* The product handlers (server/src/handlers/product.ts) and the
\* handleInputErrors middleware (server/src/middleware), as section 4 of the
\* specification describes them.

Unchanged(response) == Outcome(response, products, nextId)

\* The number a price accepted by the store denotes.
StorablePrice(v) == v.t = "num" \/ (v.t = "str" /\ IsInt(v.s))

PriceValue(v) == IF v.t = "num" THEN v.n ELSE ToInt(v.s)

BoolValue(v) ==
    IF v.t = "bool" THEN v.b ELSE ToText(v) \in {<<"t", "r", "u", "e">>, <<"1">>}

\* A key that is no integer either matches no row or makes the store raise,
\* depending on the store; storeRaises is that choice.
KeyRaises(idText, storeRaises) == ~IsInt(idText) /\ storeRaises

ServerError(handler) == Unchanged(Response(500, NoErrors, {}, handler))

NotFound(handler) == Unchanged(Response(404, NoErrors, {}, handler))

handleInputErrors(errors) == Unchanged(Response(400, errors, {}, "none"))

getProducts(r, storeRaises) ==
    Unchanged(Response(200, NoErrors, {products[k] : k \in DOMAIN products}, "getProducts"))

getProductById(r, storeRaises) ==
    IF KeyRaises(r.id, storeRaises) THEN ServerError("getProductById")
    ELSE IF FindByPk(r.id) = {} THEN NotFound("getProductById")
    ELSE Unchanged(Response(200, NoErrors, {products[k] : k \in FindByPk(r.id)},
                            "getProductById"))

createProduct(r, storeRaises) ==
    IF ~StorablePrice(r.body.price) THEN ServerError("createProduct")
    ELSE LET row == Row(nextId, ToText(r.body.name), PriceValue(r.body.price), TRUE)
         IN  Outcome(Response(201, NoErrors, {row}, "createProduct"),
                     [k \in DOMAIN products \cup {nextId} |->
                         IF k = nextId THEN row ELSE products[k]],
                     nextId + 1)

updateProduct(r, storeRaises) ==
    IF KeyRaises(r.id, storeRaises) THEN ServerError("updateProduct")
    ELSE IF FindByPk(r.id) = {} THEN NotFound("updateProduct")
    ELSE IF ~StorablePrice(r.body.price) THEN ServerError("updateProduct")
    ELSE LET rows == [k \in DOMAIN products |->
                         IF k \in FindByPk(r.id)
                         THEN Row(products[k].id, ToText(r.body.name),
                                  PriceValue(r.body.price), BoolValue(r.body.availability))
                         ELSE products[k]]
         IN  Outcome(Response(200, NoErrors, {rows[k] : k \in FindByPk(r.id)},
                              "updateProduct"),
                     rows, nextId)

updateAvailability(r, storeRaises) ==
    IF KeyRaises(r.id, storeRaises) THEN ServerError("updateAvailability")
    ELSE IF FindByPk(r.id) = {} THEN NotFound("updateAvailability")
    ELSE LET rows == [k \in DOMAIN products |->
                         IF k \in FindByPk(r.id)
                         THEN [products[k] EXCEPT !.availability = ~@]
                         ELSE products[k]]
         IN  Outcome(Response(200, NoErrors, {rows[k] : k \in FindByPk(r.id)},
                              "updateAvailability"),
                     rows, nextId)

deleteProduct(r, storeRaises) ==
    IF KeyRaises(r.id, storeRaises) THEN ServerError("deleteProduct")
    ELSE IF FindByPk(r.id) = {} THEN NotFound("deleteProduct")
    ELSE Outcome(Response(200, NoErrors, {}, "deleteProduct"),
                 [k \in DOMAIN products \ FindByPk(r.id) |-> products[k]],
                 nextId)

Handle(step, r, storeRaises) ==
    CASE step = "getProducts" -> getProducts(r, storeRaises)
      [] step = "getProductById" -> getProductById(r, storeRaises)
      [] step = "createProduct" -> createProduct(r, storeRaises)
      [] step = "updateProduct" -> updateProduct(r, storeRaises)
      [] step = "updateAvailability" -> updateAvailability(r, storeRaises)
      [] step = "deleteProduct" -> deleteProduct(r, storeRaises)

\* Express runs a route's middleware in order: a field chain records its
\* failures on the request and calls next; handleInputErrors answers 400 when
\* failures are recorded and calls next otherwise; a handler answers.
RECURSIVE RunStack(_, _, _, _)
RunStack(stack, r, errors, storeRaises) ==
    IF stack = <<>> THEN Unchanged(NoResponse)
    ELSE IF Head(stack) \in ValidatorSteps
         THEN RunStack(Tail(stack), r, errors \o FieldErrors(Head(stack), r), storeRaises)
    ELSE IF Head(stack) = "handleInputErrors"
         THEN IF errors # NoErrors THEN handleInputErrors(errors)
              ELSE RunStack(Tail(stack), r, errors, storeRaises)
    ELSE Handle(Head(stack), r, storeRaises)

\* The failures the field chains of a stack record for a request.
RECURSIVE RecordedErrors(_, _)
RecordedErrors(stack, r) ==
    IF stack = <<>> THEN NoErrors
    ELSE (IF Head(stack) \in ValidatorSteps THEN FieldErrors(Head(stack), r) ELSE NoErrors)
         \o RecordedErrors(Tail(stack), r)

----------------------------------------------------------------------------
\* The requests a client sends

IdTexts ==
    {NatToStr(k) : k \in 0..(MaxProducts + 1)}
    \cup {<<"-", "1">>, <<"0", "1">>, <<"a">>, <<"1", ".", "5">>}

NameValues == {JsUndefined, JsStr(<<>>), JsStr(<<"A">>), JsStr(<<"B">>)}

PriceValues ==
    {JsUndefined, JsNum(-1), JsNum(0), JsNum(1), JsNum(2),
     JsStr(<<"a">>), JsStr(<<"0">>), JsStr(<<"2">>)}

AvailabilityValues == {JsUndefined, JsBool(TRUE), JsBool(FALSE), JsStr(<<"y">>)}

Requests ==
    {Request("GET", <<>>, EmptyBody)}
    \cup {Request(m, id, EmptyBody) : m \in {"GET", "PATCH", "DELETE"}, id \in IdTexts}
    \cup {Request("POST", <<>>, [name |-> n, price |-> p, availability |-> JsUndefined]) :
            n \in NameValues, p \in PriceValues}
    \cup {Request("PUT", id, [name |-> n, price |-> p, availability |-> a]) :
            id \in IdTexts, n \in NameValues, p \in PriceValues, a \in AvailabilityValues}

\* The stack router.ts binds to a request's verb and path.
RouteOf(r) ==
    CASE r.method = "GET" /\ r.id = <<>> -> GetProductsRoute
      [] r.method = "GET" /\ r.id # <<>> -> GetProductByIdRoute
      [] r.method = "POST" -> CreateProductRoute
      [] r.method = "PUT" -> UpdateProductRoute
      [] r.method = "PATCH" -> UpdateAvailabilityRoute
      [] r.method = "DELETE" -> DeleteProductRoute

----------------------------------------------------------------------------
\* The state machine

Init ==
    /\ products = <<>>
    /\ nextId = 1
    /\ pc = "idle"
    /\ req = NoRequest
    /\ res = NoResponse
    /\ deleted = {}

\* A request arrives.  The table hands out MaxProducts ids in a run.
Receive ==
    /\ pc = "idle"
    /\ \E r \in Requests :
          /\ r.method = "POST" => nextId <= MaxProducts
          /\ req' = r
    /\ pc' = "pending"
    /\ UNCHANGED <<products, nextId, res, deleted>>

\* The route's stack runs to its response.  deleted records the ids a
\* DELETE has answered 200 for.
Serve(method, withId, stack) ==
    /\ pc = "pending"
    /\ req.method = method
    /\ (req.id # <<>>) = withId
    /\ \E storeRaises \in BOOLEAN :
          LET out == RunStack(stack, req, NoErrors, storeRaises)
          IN  /\ res' = out.res
              /\ products' = out.products
              /\ nextId' = out.nextId
              /\ deleted' = IF method = "DELETE" /\ out.res.status = 200 /\ IsInt(req.id)
                            THEN deleted \cup {ToInt(req.id)}
                            ELSE deleted
    /\ pc' = "responded"
    /\ UNCHANGED req

GetProducts == Serve("GET", FALSE, GetProductsRoute)

GetProductById == Serve("GET", TRUE, GetProductByIdRoute)

CreateProduct == Serve("POST", FALSE, CreateProductRoute)

UpdateProduct == Serve("PUT", TRUE, UpdateProductRoute)

UpdateAvailability == Serve("PATCH", TRUE, UpdateAvailabilityRoute)

DeleteProduct == Serve("DELETE", TRUE, DeleteProductRoute)

\* The response is sent and the request ends.
Finish ==
    /\ pc = "responded"
    /\ pc' = "idle"
    /\ req' = NoRequest
    /\ res' = NoResponse
    /\ UNCHANGED <<products, nextId, deleted>>

Next ==
    \/ Receive
    \/ GetProducts
    \/ GetProductById
    \/ CreateProduct
    \/ UpdateProduct
    \/ UpdateAvailability
    \/ DeleteProduct
    \/ Finish

Spec == Init /\ [][Next]_vars

----------------------------------------------------------------------------
\* Properties of the router

\* A step in which a route's stack answers the pending request.
Served == pc = "pending" /\ pc' = "responded"

Responded == pc = "responded"

HasChain(r) == r.method # "none" /\ ~(r.method = "GET" /\ r.id = <<>>)

RowIds == {products[k].id : k \in DOMAIN products}

IdAbsent(idText) == ~(IsInt(idText) /\ ToInt(idText) \in RowIds)

PositivePrice(v) ==
    \/ v.t = "num" /\ v.n > 0
    \/ v.t = "str" /\ IsInt(v.s) /\ ToInt(v.s) > 0

NonPositivePrice(v) ==
    \/ v.t = "num" /\ v.n <= 0
    \/ v.t = "str" /\ IsInt(v.s) /\ ToInt(v.s) <= 0

NonEmptyName(v) == v.t = "str" /\ v.s # <<>>

ValidCreateBody(b) == NonEmptyName(b.name) /\ PositivePrice(b.price)

ValidUpdateBody(b) == ValidCreateBody(b) /\ b.availability.t = "bool"

Rejected400 == res'.status = 400 /\ res'.handler = "none"

StoreUnchanged == products' = products /\ nextId' = nextId

\* C1: on every route with a validator chain, a request with a failing field
\* predicate is answered 400, its handler is not run and the table is
\* unchanged; a request with no failing predicate reaches the handler.
C1_ChainGuardsHandler ==
    [][Served /\ HasChain(req) =>
          IF RecordedErrors(RouteOf(req), req) # NoErrors
          THEN Rejected400 /\ StoreUnchanged
          ELSE res'.handler # "none"]_vars

\* C2: every stored product has price > 0 and a non-empty name, and a stored
\* product keeps the id it was created with.
C2_StoredProductsValid ==
    [][\A k \in DOMAIN products' :
          /\ products'[k].price > 0
          /\ products'[k].name # <<>>
          /\ k \in DOMAIN products => products'[k].id = products[k].id]_vars

C2_Witness ==
    /\ Responded /\ req.method = "PUT" /\ res.status = 200
    /\ deleted # {}
    /\ \E k \in DOMAIN products : products[k].price = 2 /\ ~products[k].availability

\* C3 as stated: for every id not present in the table, GET, PUT with a valid
\* body, PATCH and DELETE of that id answer 404 and leave the table unchanged.
C3_AbsentIdIs404 ==
    [][/\ Served /\ req.id # <<>> /\ IdAbsent(req.id)
       /\ req.method = "PUT" => ValidUpdateBody(req.body)
       => res'.status = 404 /\ StoreUnchanged]_vars

\* C3 amended: for every integer id not present in the table, GET, PUT with a
\* valid body, PATCH and DELETE of that id answer 404 and leave the table
\* unchanged.
C3_AbsentIntegerIdIs404 ==
    [][/\ Served /\ req.id # <<>> /\ IsInt(req.id) /\ IdAbsent(req.id)
       /\ req.method = "PUT" => ValidUpdateBody(req.body)
       => res'.status = 404 /\ StoreUnchanged]_vars

C3_Witness ==
    /\ Responded /\ req.method = "PUT" /\ res.status = 404
    /\ IsInt(req.id) /\ IdAbsent(req.id) /\ ToInt(req.id) \in deleted
    /\ DOMAIN products # {}

\* C4: a PATCH whose id is no integer is answered 400 before
\* updateAvailability runs, and no product's availability changes.
C4_PatchBadIdRejected ==
    [][Served /\ req.method = "PATCH" /\ ~IsInt(req.id) =>
          /\ Rejected400
          /\ DOMAIN products' = DOMAIN products
          /\ \A k \in DOMAIN products :
                products'[k].availability = products[k].availability]_vars

\* C5: a create or an update carrying a price <= 0 is answered 400 whatever
\* its other fields are, and no product is created or modified.
C5_NonPositivePriceRejected ==
    [][Served /\ req.method \in {"POST", "PUT"} /\ NonPositivePrice(req.body.price) =>
          Rejected400 /\ StoreUnchanged]_vars

C5_Witness ==
    /\ Responded /\ req.method = "POST" /\ res.status = 400
    /\ NonEmptyName(req.body.name) /\ req.body.price = JsNum(0)
    /\ DOMAIN products # {}

\* C6: a create or an update with an empty name is answered 400 with an error
\* on the name field, and no product is created or modified.
C6_EmptyNameRejected ==
    [][Served /\ req.method \in {"POST", "PUT"} /\ req.body.name = JsStr(<<>>) =>
          /\ Rejected400
          /\ \E i \in DOMAIN res'.errors : res'.errors[i].field = "name"
          /\ StoreUnchanged]_vars

C6_Witness ==
    /\ Responded /\ req.method = "PUT" /\ res.status = 400
    /\ req.body.name = JsStr(<<>>) /\ PositivePrice(req.body.price)
    /\ req.body.availability.t = "bool" /\ ~IdAbsent(req.id)

\* C7: a PATCH answered 200 flips the availability of the product with that
\* id and changes nothing else: its id, name and price, and every other
\* product, are as before.
C7_PatchFlipsAvailabilityOnly ==
    [][Served /\ req.method = "PATCH" /\ res'.status = 200 =>
          /\ ~IdAbsent(req.id)
          /\ DOMAIN products' = DOMAIN products
          /\ \A k \in DOMAIN products :
                products'[k] = IF products[k].id = ToInt(req.id)
                               THEN [products[k] EXCEPT !.availability = ~@]
                               ELSE products[k]
          /\ res'.data = {products'[k] : k \in {j \in DOMAIN products :
                                                   products[j].id = ToInt(req.id)}}]_vars

C7_Witness ==
    /\ Responded /\ req.method = "PATCH" /\ res.status = 200
    /\ Cardinality(DOMAIN products) = 2
    /\ \E row \in res.data : row.availability

\* C8: a create with a non-empty name and a numeric price > 0 is answered 201
\* with a product whose availability is true and whose id differs from the
\* id of every other product in the table.
C8_ValidCreateGetsFreshId ==
    [][Served /\ req.method = "POST" /\ ValidCreateBody(req.body) =>
          /\ res'.status = 201
          /\ \E row \in res'.data :
                /\ res'.data = {row}
                /\ row.availability
                /\ row.id \notin RowIds
                /\ \E k \in DOMAIN products' :
                      /\ products'[k] = row
                      /\ \A j \in DOMAIN products' \ {k} : products'[j].id # row.id]_vars

C8_Witness ==
    /\ Responded /\ req.method = "POST" /\ res.status = 201
    /\ deleted # {}
    /\ Cardinality(DOMAIN products) = 1

\* C9: once a DELETE of an id has answered 200, every later DELETE and every
\* later GET of that id answers 404.
C9_DeletedStaysGone ==
    [][/\ Served /\ req.method \in {"DELETE", "GET"} /\ req.id # <<>>
       /\ IsInt(req.id) /\ ToInt(req.id) \in deleted
       => res'.status = 404]_vars

C9_Witness ==
    /\ Responded /\ req.method = "DELETE" /\ res.status = 404
    /\ IsInt(req.id) /\ ToInt(req.id) \in deleted

\* C10 as stated: GET /:id with an id that is no positive integer (zero and
\* negative integers included) is answered 400 and getProductById is not run.
C10_GetNonPositiveIdRejected ==
    [][/\ Served /\ req.method = "GET" /\ req.id # <<>>
       /\ ~(IsInt(req.id) /\ ToInt(req.id) > 0)
       => Rejected400]_vars

\* C10 amended: GET /:id with an id that is no integer is answered 400 and
\* getProductById is not run; every integer id, zero and negative integers
\* included, passes the chain and reaches getProductById.
C10_GetNonIntegerIdRejected ==
    [][Served /\ req.method = "GET" /\ req.id # <<>> =>
          IF IsInt(req.id) THEN res'.handler = "getProductById" ELSE Rejected400]_vars

C10_Witness ==
    /\ Responded /\ req.method = "GET" /\ res.status = 400
    /\ req.id = <<"1", ".", "5">>

====
